---- MODULE Spec2Model ----
(***************************************************************************)
(* Synthetic data generator (data_gen.py).                                 *)
(*                                                                         *)
(* Two specifications share this module:                                   *)
(*   Spec     the Streamlit session: st.session_state, the scenario        *)
(*            buttons, load_scenario, the form widgets and the dispatch    *)
(*            of the "Generate" button (validate_inputs, then the choice   *)
(*            of a generator and of its arguments);                        *)
(*   SpecGen  one run of a generator, either called directly or entered    *)
(*            through the validate-then-generate path of main, one         *)
(*            iteration of the per-group loop at a time.                   *)
(*                                                                         *)
(* Real numbers are exact fixed-point decimals counted in tenths (Dec);    *)
(* the rounding of IEEE doubles is not modelled.  Strings are TLA+ strings, *)
(* concatenated and sliced as the Python code does.  A numpy.random call   *)
(* returns any array over a few sample values of its distribution's        *)
(* support.                                                                *)
(***************************************************************************)
EXTENDS Integers, Sequences, FiniteSets, TLC

VARIABLES
    session,          \* st.session_state: a dict, key -> value
    prefix_input,     \* the "Group Label Prefix" text input (it has no key)
    output,           \* what the Generate branch of the current script run rendered
    last_load,        \* the latest call of load_scenario: its argument and how it ended
    hist,             \* history: which operations produced the session (see HistInit)
    pc,               \* position of the generator run
    call,             \* the generator being run and its arguments
    errors,           \* what validate_inputs returned on the main path
    i,                \* the generator's group index
    user_id_counter,  \* the generator's user_id_counter
    data,             \* the generator's list of records
    draws,            \* the numpy.random calls made so far, one per group
    ret               \* the DataFrame returned

sessionVars == <<session, prefix_input, output, last_load, hist>>
genVars == <<pc, call, errors, i, user_id_counter, data, draws, ret>>
vars == <<session, prefix_input, output, last_load, hist,
          pc, call, errors, i, user_id_counter, data, draws, ret>>

-----------------------------------------------------------------------------
(* Bounds of the model. *)

\* load_scenario is called with arguments ExtraIds below 1 and above 20 too
ExtraIds == 1
\* a generator is run with at most MaxGroups groups ...
MaxGroups == 5
\* ... at most MaxSamples rows per group ...
MaxSamples == 3
\* ... and at most MaxRows rows in all
MaxRows == 6

-----------------------------------------------------------------------------
(* Values. *)

\* Python's None where it stands among strings
None == "None"

\* a decimal number whole.tenths, counted in tenths
Dec(whole, tenths) == whole * 10 + tenths

\* product and quotient of two decimals
DecMul(a, b) == (a * b) \div Dec(1, 0)
DecDiv(a, b) == (a * Dec(1, 0)) \div b

RECURSIVE SumSeq(_)
SumSeq(s) == IF s = <<>> THEN 0 ELSE Head(s) + SumSeq(Tail(s))

Min(a, b) == IF a <= b THEN a ELSE b

-----------------------------------------------------------------------------
(* The preset catalog. *)

presets == <<
  [metric_type |-> "Continuous", distribution |-> "Normal", variance |-> "Equal", paths |-> 2, samples |-> 1000,
   description |-> "t-test", expected_test |-> "t-test"],
  [metric_type |-> "Continuous", distribution |-> "Normal", variance |-> "Unequal", paths |-> 2, samples |-> 1000,
   description |-> "Welch's t-test", expected_test |-> "Welch's t-test"],
  [metric_type |-> "Continuous", distribution |-> "Skewed", variance |-> "Equal", paths |-> 2, samples |-> 1000,
   description |-> "Mann-Whitney", expected_test |-> "Mann-Whitney"],
  [metric_type |-> "Continuous", distribution |-> "Skewed", variance |-> "Unequal", paths |-> 2, samples |-> 1000,
   description |-> "Mann-Whitney", expected_test |-> "Mann-Whitney"],
  [metric_type |-> "Continuous", distribution |-> "Normal", variance |-> "Equal", paths |-> 4, samples |-> 1000,
   description |-> "ANOVA", expected_test |-> "ANOVA"],
  [metric_type |-> "Continuous", distribution |-> "Normal", variance |-> "Unequal", paths |-> 4, samples |-> 1000,
   description |-> "Welch's ANOVA", expected_test |-> "Welch's ANOVA"],
  [metric_type |-> "Continuous", distribution |-> "Skewed", variance |-> "Equal", paths |-> 4, samples |-> 1000,
   description |-> "Kruskal-Wallis", expected_test |-> "Kruskal-Wallis"],
  [metric_type |-> "Continuous", distribution |-> "Skewed", variance |-> "Unequal", paths |-> 4, samples |-> 1000,
   description |-> "Kruskal-Wallis", expected_test |-> "Kruskal-Wallis"],
  [metric_type |-> "Proportion", distribution |-> "Binary", variance |-> "-", paths |-> 2, samples |-> 1000,
   description |-> "Two-Proportion Z-Test", expected_test |-> "Two-Proportion Z-Test"],
  [metric_type |-> "Proportion", distribution |-> "Binary", variance |-> "-", paths |-> 4, samples |-> 1000,
   description |-> "Chi-Square", expected_test |-> "Chi-Square"],
  [metric_type |-> "Categorical", distribution |-> "Uniform", variance |-> "-", paths |-> 2, samples |-> 1000,
   description |-> "Chi-Square", expected_test |-> "Chi-Square"],
  [metric_type |-> "Categorical", distribution |-> "Uniform", variance |-> "-", paths |-> 4, samples |-> 1000,
   description |-> "Chi-Square", expected_test |-> "Chi-Square"],
  [metric_type |-> "Continuous", distribution |-> "Normal", variance |-> "Equal", paths |-> 2, samples |-> 1000,
   description |-> "t-test (duplicate)", expected_test |-> "t-test (duplicate)"],
  [metric_type |-> "Continuous", distribution |-> "Skewed", variance |-> "Unequal", paths |-> 2, samples |-> 1000,
   description |-> "Mann-Whitney (duplicate)", expected_test |-> "Mann-Whitney (duplicate)"],
  [metric_type |-> "Proportion", distribution |-> "Binary", variance |-> "-", paths |-> 2, samples |-> 1000,
   description |-> "Two-Proportion Z-Test (duplicate)", expected_test |-> "Two-Proportion Z-Test (duplicate)"],
  [metric_type |-> "Proportion", distribution |-> "Binary", variance |-> "-", paths |-> 4, samples |-> 1000,
   description |-> "Chi-Square (duplicate)", expected_test |-> "Chi-Square (duplicate)"],
  [metric_type |-> "Continuous", distribution |-> "Normal", variance |-> "Equal", paths |-> 4, samples |-> 1000,
   description |-> "ANOVA (confirm variance handling)", expected_test |-> "ANOVA (confirm variance handling)"],
  [metric_type |-> "Continuous", distribution |-> "Skewed", variance |-> "Unequal", paths |-> 4, samples |-> 1000,
   description |-> "Kruskal-Wallis (reconfirm skew+variance)",
   expected_test |-> "Kruskal-Wallis (reconfirm skew+variance)"],
  [metric_type |-> "Proportion", distribution |-> "Binary", variance |-> "-", paths |-> 4, samples |-> 1000,
   description |-> "Chi-Square (retest large groups)", expected_test |-> "Chi-Square (retest large groups)"],
  [metric_type |-> "Categorical", distribution |-> "Uniform", variance |-> "-", paths |-> 4, samples |-> 1000,
   description |-> "Chi-Square (multi-level categorical)",
   expected_test |-> "Chi-Square (multi-level categorical)"]
>>

-----------------------------------------------------------------------------
(* st.session_state: a dict.  A key is in the dict iff it is in DOMAIN.    *)
(* main stores None under current_scenario on the first run; the key is    *)
(* only ever tested against None, and None is modelled as its absence.     *)

EmptySession == [k \in {} |-> None]

Has(s, k) == k \in DOMAIN s

\* st.session_state.get(k, default)
Get(s, k, default) == IF Has(s, k) THEN s[k] ELSE default

\* st.session_state.k = v
Set(s, k, v) == [x \in (DOMAIN s) \cup {k} |-> IF x = k THEN v ELSE s[x]]

\* f"test inputs/scenario{scenario_num}.csv"
scenario_file_name(scenario_num) ==
    "test inputs/scenario" \o ToString(scenario_num) \o ".csv"

\* load_scenario without the two assignments under `if preset["metric_type"] ==
\* "Continuous"`
load_scenario_never_sets_shape(s, scenario_num) ==
    IF scenario_num \in DOMAIN presets
    THEN LET preset == presets[scenario_num]
         IN  Set(Set(Set(Set(Set(s, "current_scenario", scenario_num),
                             "num_paths", preset.paths),
                         "metric_type", preset.metric_type),
                     "sample_size_per_path", preset.samples),
                 "file_name", scenario_file_name(scenario_num))
    ELSE s

\* load_scenario without the test `if preset["metric_type"] == "Continuous"`
load_scenario_always_sets_shape(s, scenario_num) ==
    IF scenario_num \in DOMAIN presets
    THEN LET preset == presets[scenario_num]
         IN  Set(Set(Set(Set(Set(Set(Set(s, "current_scenario", scenario_num),
                                     "num_paths", preset.paths),
                                 "metric_type", preset.metric_type),
                             "sample_size_per_path", preset.samples),
                         "file_name", scenario_file_name(scenario_num)),
                     "distribution_shape", preset.distribution),
                 "variance_condition", preset.variance)
    ELSE s

\* load_scenario(scenario_num): the session state it leaves
load_scenario(s, scenario_num) ==
    IF scenario_num \in DOMAIN presets
    THEN LET preset == presets[scenario_num]
             s1 == Set(s, "current_scenario", scenario_num)
             s2 == Set(s1, "num_paths", preset.paths)
             s3 == Set(s2, "metric_type", preset.metric_type)
             s4 == Set(s3, "sample_size_per_path", preset.samples)
             s5 == Set(s4, "file_name", scenario_file_name(scenario_num))
         IN  IF preset.metric_type = "Continuous"
             THEN Set(Set(s5, "distribution_shape", preset.distribution),
                      "variance_condition", preset.variance)
             ELSE s5
    ELSE s

\* how a call of load_scenario ends: it has no raise and no return value
load_scenario_outcome(scenario_num) ==
    [arg |-> scenario_num, raised |-> None, returned |-> None]

-----------------------------------------------------------------------------
(* Python string methods used by validate_inputs. *)

IsSpace(c) == c = " "

\* s.lstrip(), s.rstrip(), s.strip()
RECURSIVE lstrip(_)
lstrip(s) ==
    IF Len(s) > 0 /\ IsSpace(SubSeq(s, 1, 1)) THEN lstrip(SubSeq(s, 2, Len(s))) ELSE s

RECURSIVE rstrip(_)
rstrip(s) ==
    IF Len(s) > 0 /\ IsSpace(SubSeq(s, Len(s), Len(s)))
    THEN rstrip(SubSeq(s, 1, Len(s) - 1)) ELSE s

strip(s) == rstrip(lstrip(s))

\* s.endswith(suffix)
endswith(s, suffix) ==
    /\ Len(s) >= Len(suffix)
    /\ SubSeq(s, Len(s) - Len(suffix) + 1, Len(s)) = suffix

\* `not s`: the empty string is falsy
Falsy(s) == Len(s) = 0

-----------------------------------------------------------------------------
(* validate_inputs and the Generate button of main. *)

\* validate_inputs with `< 0` for `<= 0`
validate_inputs_strict(num_paths, sample_size_per_path, group_prefix, file_name) ==
    LET e1 == IF num_paths < 0
              THEN <<"Number of Paths must be greater than 0">> ELSE <<>>
        e2 == IF sample_size_per_path < 0
              THEN <<"Sample Size Per Path must be greater than 0">> ELSE <<>>
        e3 == IF Falsy(strip(group_prefix))
              THEN <<"Group Label Prefix cannot be empty">> ELSE <<>>
        e4 == IF Falsy(strip(file_name))
              THEN <<"File Name cannot be empty">>
              ELSE IF ~endswith(file_name, ".csv")
                   THEN <<"File Name must end with .csv">> ELSE <<>>
    IN  e1 \o e2 \o e3 \o e4

validate_inputs(num_paths, sample_size_per_path, group_prefix, file_name) ==
    LET e1 == IF num_paths <= 0
              THEN <<"Number of Paths must be greater than 0">> ELSE <<>>
        e2 == IF sample_size_per_path <= 0
              THEN <<"Sample Size Per Path must be greater than 0">> ELSE <<>>
        e3 == IF Falsy(strip(group_prefix))
              THEN <<"Group Label Prefix cannot be empty">> ELSE <<>>
        e4 == IF Falsy(strip(file_name))
              THEN <<"File Name cannot be empty">>
              ELSE IF ~endswith(file_name, ".csv")
                   THEN <<"File Name must end with .csv">> ELSE <<>>
    IN  e1 \o e2 \o e3 \o e4

\* the generator main picks for a metric type, and the arguments it passes
dispatch(num_paths, metric_type, distribution_shape, variance_condition, sample_size_per_path, group_prefix) ==
    IF metric_type = "Continuous"
    THEN [fn |-> "generate_continuous_data", num_paths |-> num_paths,
          sample_size_per_path |-> sample_size_per_path,
          distribution_shape |-> distribution_shape,
          variance_condition |-> variance_condition, group_prefix |-> group_prefix]
    ELSE IF metric_type = "Proportion"
    THEN [fn |-> "generate_proportion_data", num_paths |-> num_paths,
          sample_size_per_path |-> sample_size_per_path,
          distribution_shape |-> None, variance_condition |-> None,
          group_prefix |-> group_prefix]
    ELSE [fn |-> "generate_categorical_data", num_paths |-> num_paths,
          sample_size_per_path |-> sample_size_per_path,
          distribution_shape |-> None, variance_condition |-> None,
          group_prefix |-> group_prefix]

\* the body of `if st.button("Generate Synthetic Data")`: the errors shown, or the
\* generator called
generate_clicked(num_paths, metric_type, distribution_shape, variance_condition, sample_size_per_path, group_prefix, file_name) ==
    LET errs == validate_inputs(num_paths, sample_size_per_path, group_prefix, file_name)
    IN  IF errs # <<>>
        THEN [kind |-> "errors", errors |-> errs]
        ELSE [kind |-> "dataset",
              call |-> dispatch(num_paths, metric_type, distribution_shape,
                                variance_condition, sample_size_per_path, group_prefix),
              file_name |-> file_name]

\* a script run in which the Generate button was not clicked renders nothing there
NoOutput == [kind |-> "none"]

-----------------------------------------------------------------------------
(* The form widgets of main: each shows st.session_state.get(key, default). *)

num_paths_widget(s) == Get(s, "num_paths", 2)

metric_type_widget(s) == Get(s, "metric_type", "Continuous")

\* distribution_shape and variance_condition stay None unless the metric type
\* is Continuous
distribution_shape_widget(s) ==
    IF metric_type_widget(s) = "Continuous"
    THEN Get(s, "distribution_shape", "Normal") ELSE None

variance_condition_widget(s) ==
    IF metric_type_widget(s) = "Continuous"
    THEN Get(s, "variance_condition", "Equal") ELSE None

sample_size_widget(s) == Get(s, "sample_size_per_path", 1000)

file_name_widget(s) == Get(s, "file_name", "test inputs/synthetic_data.csv")

\* the choices the form offers
NumPathsChoices == {2, 4}
MetricTypeChoices == {"Continuous", "Proportion", "Categorical"}
ShapeChoices == {"Normal", "Skewed"}
VarianceChoices == {"Equal", "Unequal"}
\* number_input(min_value=1, max_value=10000): the value entered in the model
MaxSampleSize == 10000
SampleSizeEntries == {MaxSampleSize}
FileNameEntries == {"data.txt"}
PrefixEntries == {"Group", " "}

-----------------------------------------------------------------------------
(* The session: scenario buttons, load_scenario, form edits, Generate.     *)

\* history of the session, kept for the statements about sequences of calls:
\*   only_loads       no form edit has happened since the empty session
\*   last_continuous  while only_loads: the id of the latest load_scenario
\*                    argument in 1..20 whose preset is Continuous (0: none)
\*   clean            no form edit since the latest load of an id in 1..20
HistInit == [only_loads |-> TRUE, last_continuous |-> 0, clean |-> FALSE]

HistAfterLoad(h, scenario_num) ==
    IF scenario_num \in 1..20
    THEN [only_loads |-> h.only_loads,
          last_continuous |->
              IF ~h.only_loads THEN 0
              ELSE IF scenario_num \in {1, 2, 3, 4, 5, 6, 7, 8, 13, 14, 17, 18}
                   THEN scenario_num ELSE h.last_continuous,
          clean |-> TRUE]
    ELSE h

HistAfterEdit == [only_loads |-> FALSE, last_continuous |-> 0, clean |-> FALSE]

\* the arguments load_scenario is called with
LoadArgs == (1 - ExtraIds)..(20 + ExtraIds)

\* the sidebar looking the preset up one key too far
sidebar_preset_off_by_one(s) == presets[(s["current_scenario"] % 20) + 1]

\* `if st.session_state.current_scenario is not None`: the sidebar displays
\* "Currently loaded", with the preset below
sidebar_shows_preset(s) == Has(s, "current_scenario")

sidebar_preset(s) == presets[s["current_scenario"]]

SessionInit ==
    /\ session = EmptySession
    /\ prefix_input = "Group"
    /\ output = NoOutput
    /\ last_load = [arg |-> 0, raised |-> None, returned |-> "not called"]
    /\ hist = HistInit

\* load_scenario(scenario_num).  The sidebar buttons call it with 1..20 and
\* rerun the script, which then renders no Generate output
LoadScenario(n) ==
    /\ session' = load_scenario(session, n)
    /\ last_load' = load_scenario_outcome(n)
    /\ output' = NoOutput
    /\ hist' = HistAfterLoad(hist, n)
    /\ UNCHANGED prefix_input
    /\ UNCHANGED genVars

\* the user changes the widget with key `key` from the value it shows to
\* another: the value lands in the session state and the script reruns
EditWidget(key, shown, value) ==
    /\ value # shown
    /\ session' = Set(session, key, value)
    /\ output' = NoOutput
    /\ hist' = HistAfterEdit
    /\ UNCHANGED <<prefix_input, last_load>>
    /\ UNCHANGED genVars

SelectNumPaths == \E v \in NumPathsChoices : EditWidget("num_paths", num_paths_widget(session), v)

SelectMetricType == \E v \in MetricTypeChoices : EditWidget("metric_type", metric_type_widget(session), v)

\* the two selectboxes below are rendered for Continuous only
SelectDistributionShape ==
    /\ metric_type_widget(session) = "Continuous"
    /\ \E v \in ShapeChoices :
           EditWidget("distribution_shape", distribution_shape_widget(session), v)

SelectVarianceCondition ==
    /\ metric_type_widget(session) = "Continuous"
    /\ \E v \in VarianceChoices :
           EditWidget("variance_condition", variance_condition_widget(session), v)

EnterSampleSize ==
    \E v \in SampleSizeEntries :
        EditWidget("sample_size_per_path", sample_size_widget(session), v)

EnterFileName ==
    \E v \in FileNameEntries : EditWidget("file_name", file_name_widget(session), v)

EnterGroupPrefix ==
    \E v \in PrefixEntries :
        /\ v # prefix_input
        /\ prefix_input' = v
        /\ output' = NoOutput
        /\ hist' = HistAfterEdit
        /\ UNCHANGED <<session, last_load>>
        /\ UNCHANGED genVars

\* `if st.button("Generate Synthetic Data")`
GenerateButton ==
    /\ output' = generate_clicked(num_paths_widget(session), metric_type_widget(session),
                                  distribution_shape_widget(session),
                                  variance_condition_widget(session),
                                  sample_size_widget(session), prefix_input,
                                  file_name_widget(session))
    /\ UNCHANGED <<session, prefix_input, last_load, hist>>
    /\ UNCHANGED genVars

GenIdle ==
    /\ pc = "idle"
    /\ call = [via |-> None]
    /\ errors = <<>>
    /\ i = 0
    /\ user_id_counter = 0
    /\ data = <<>>
    /\ draws = <<>>
    /\ ret = <<>>

Init == SessionInit /\ GenIdle

Load == \E n \in LoadArgs : LoadScenario(n)

Next ==
    \/ Load
    \/ SelectNumPaths
    \/ SelectMetricType
    \/ SelectDistributionShape
    \/ SelectVarianceCondition
    \/ EnterSampleSize
    \/ EnterFileName
    \/ EnterGroupPrefix
    \/ GenerateButton

Spec == Init /\ [][Next]_vars

-----------------------------------------------------------------------------
(* The generators. *)

\* chr(n) for the codes of the upper-case letters, 65..90
UpperCase == "ABCDEFGHIJKLMNOPQRSTUVWXYZ"

chr(n) == SubSeq(UpperCase, n - 64, n - 64)

\* f"{group_prefix} {chr(65 + i)}"
group_name(group_prefix, g) == group_prefix \o " " \o chr(65 + g)

\* generate_continuous_data with the Unequal spread not scaled by the group index
continuous_draw_fixed_spread(distribution_shape, variance_condition, g, size) ==
    IF distribution_shape = "Normal"
    THEN IF variance_condition = "Equal"
         THEN [fn |-> "normal", loc |-> Dec(50, 0), scale |-> Dec(10, 0), size |-> size]
         ELSE [fn |-> "normal", loc |-> Dec(50, 0) + (g * Dec(10, 0)),
               scale |-> Dec(10, 0), size |-> size]
    ELSE IF variance_condition = "Equal"
         THEN [fn |-> "gamma", shape |-> Dec(2, 0), scale |-> Dec(10, 0), size |-> size]
         ELSE [fn |-> "gamma", shape |-> Dec(2, 0) + (g * Dec(0, 5)),
               scale |-> Dec(10, 0), size |-> size]

\* the numpy.random call generate_continuous_data makes for group g
continuous_draw(distribution_shape, variance_condition, g, size) ==
    IF distribution_shape = "Normal"
    THEN IF variance_condition = "Equal"
         THEN [fn |-> "normal", loc |-> Dec(50, 0), scale |-> Dec(10, 0), size |-> size]
         ELSE LET base_mean == Dec(50, 0) + (g * Dec(10, 0))
                  base_std == Dec(10, 0) + (g * Dec(5, 0))
              IN  [fn |-> "normal", loc |-> base_mean, scale |-> base_std, size |-> size]
    ELSE IF variance_condition = "Equal"
         THEN [fn |-> "gamma", shape |-> Dec(2, 0), scale |-> Dec(10, 0), size |-> size]
         ELSE LET shape == Dec(2, 0) + (g * Dec(0, 5))
                  scale == Dec(10, 0) + (g * Dec(5, 0))
              IN  [fn |-> "gamma", shape |-> shape, scale |-> scale, size |-> size]

\* the probability capped at 1.0 instead of 0.9
proportion_probability_cap_one(g) == Min(Dec(0, 3) + (g * Dec(0, 2)), Dec(1, 0))

\* probability = min(0.3 + i * 0.2, 0.9)
proportion_probability(g) == Min(Dec(0, 3) + (g * Dec(0, 2)), Dec(0, 9))

\* the numpy.random call generate_proportion_data makes for group g
proportion_draw(g, size) ==
    [fn |-> "binomial", n |-> 1, p |-> proportion_probability(g), size |-> size]

categories == <<"Red", "Blue", "Green", "Yellow", "Purple", "Orange">>

\* the weights without the branch `elif i == 2`
group_weights_two_branches(g) ==
    IF g = 0 THEN <<Dec(0, 4), Dec(0, 3), Dec(0, 2), Dec(0, 1), Dec(0, 0), Dec(0, 0)>>
    ELSE IF g = 1 THEN <<Dec(0, 1), Dec(0, 2), Dec(0, 4), Dec(0, 3), Dec(0, 0), Dec(0, 0)>>
    ELSE <<Dec(0, 1), Dec(0, 1), Dec(0, 1), Dec(0, 1), Dec(0, 3), Dec(0, 3)>>

\* the weights written for group g
group_weights(g) ==
    IF g = 0 THEN <<Dec(0, 4), Dec(0, 3), Dec(0, 2), Dec(0, 1), Dec(0, 0), Dec(0, 0)>>
    ELSE IF g = 1 THEN <<Dec(0, 1), Dec(0, 2), Dec(0, 4), Dec(0, 3), Dec(0, 0), Dec(0, 0)>>
    ELSE IF g = 2 THEN <<Dec(0, 0), Dec(0, 1), Dec(0, 2), Dec(0, 3), Dec(0, 4), Dec(0, 0)>>
    ELSE <<Dec(0, 1), Dec(0, 1), Dec(0, 1), Dec(0, 1), Dec(0, 3), Dec(0, 3)>>

\* weights[:min(len(categories), 6)], then [w / sum(weights) for w in weights]
normalized_weights(g) ==
    LET weights == SubSeq(group_weights(g), 1, Min(Len(categories), 6))
    IN  [j \in 1..Len(weights) |-> DecDiv(weights[j], SumSeq(weights))]

\* the numpy.random call generate_categorical_data makes for group g
categorical_draw(g, size) ==
    LET weights == normalized_weights(g)
    IN  [fn |-> "choice", a |-> SubSeq(categories, 1, Len(weights)), p |-> weights,
         size |-> size]

\* samples of the standard normal and standard gamma distributions
StdNormalSamples == {0 - Dec(1, 5), Dec(0, 0), Dec(1, 5)}
StdGammaSamples == {Dec(0, 5), Dec(4, 0)}

\* the values one draw of a numpy.random call can give
Outcomes(d) ==
    IF d.fn = "normal" THEN {d.loc + DecMul(d.scale, z) : z \in StdNormalSamples}
    ELSE IF d.fn = "gamma" THEN {DecMul(d.scale, z) : z \in StdGammaSamples}
    ELSE IF d.fn = "binomial"
    THEN {k \in 0..d.n : (k > 0 => d.p > Dec(0, 0)) /\ (k < d.n => d.p < Dec(1, 0))}
    ELSE {d.a[j] : j \in {x \in 1..Len(d.a) : d.p[x] > Dec(0, 0)}}

\* numpy raises ValueError for a negative size and for a probability outside [0, 1]
Raises(d) ==
    \/ d.size < 0
    \/ d.fn = "binomial" /\ (d.p < Dec(0, 0) \/ d.p > Dec(1, 0))

\* the arrays a numpy.random call can return

Arrays(d) == [1..d.size -> Outcomes(d)]

\* the inner loop over values[:-1]: the last value of each group is dropped
RECURSIVE append_records_drop_last(_, _, _, _)
append_records_drop_last(rows, values, name, counter) ==
    IF Len(values) <= 1
    THEN [data |-> rows, user_id_counter |-> counter]
    ELSE append_records_drop_last(
             Append(rows, [user_id |-> counter, group |-> name, metric |-> Head(values)]),
             Tail(values), name, counter + 1)

\* the inner loop with user_id_counter set back to 1 for each group
append_records_counter_reset(rows, values, name, counter) ==
    [data |-> rows \o [k \in 1..Len(values) |->
                          [user_id |-> k, group |-> name, metric |-> values[k]]],
     user_id_counter |-> 1 + Len(values)]

\* `for value in values: data.append({...}); user_id_counter += 1`
RECURSIVE append_records(_, _, _, _)
append_records(rows, values, name, counter) ==
    IF values = <<>>
    THEN [data |-> rows, user_id_counter |-> counter]
    ELSE append_records(
             Append(rows, [user_id |-> counter, group |-> name, metric |-> Head(values)]),
             Tail(values), name, counter + 1)

\* the call a generator makes for group g
draw_of(args, g) ==
    IF args.fn = "generate_continuous_data"
    THEN continuous_draw(args.distribution_shape, args.variance_condition, g,
                         args.sample_size_per_path)
    ELSE IF args.fn = "generate_proportion_data"
    THEN proportion_draw(g, args.sample_size_per_path)
    ELSE categorical_draw(g, args.sample_size_per_path)

-----------------------------------------------------------------------------
(* One run of a generator. *)

GeneratorNames ==
    {"generate_continuous_data", "generate_proportion_data", "generate_categorical_data"}

NumPathsArgs == (0 - 1)..MaxGroups
SampleSizeArgs == (0 - 1)..MaxSamples
WithinRows(num_paths, sample_size_per_path) ==
    num_paths <= 0 \/ sample_size_per_path <= 0
        \/ num_paths * sample_size_per_path <= MaxRows

\* data = [], user_id_counter = 1, and the loop is entered
Enter(via, args) ==
    /\ call' = [via |-> via, args |-> args]
    /\ pc' = "loop"
    /\ i' = 0
    /\ user_id_counter' = 1
    /\ data' = <<>>
    /\ draws' = <<>>
    /\ ret' = <<>>

\* the Generate button of main with the form holding any values: validate_inputs,
\* then the generator for the metric type
MainGenerate ==
    /\ pc = "idle"
    /\ \E num_paths \in NumPathsArgs, sample_size_per_path \in SampleSizeArgs,
          metric_type \in MetricTypeChoices,
          group_prefix \in {"Group", " "}, file_name \in {"out.csv", "out.txt", ""} :
         \E distribution_shape \in IF metric_type = "Continuous" THEN ShapeChoices ELSE {None},
            variance_condition \in IF metric_type = "Continuous" THEN VarianceChoices ELSE {None} :
           LET out == generate_clicked(num_paths, metric_type, distribution_shape,
                                       variance_condition, sample_size_per_path,
                                       group_prefix, file_name)
           IN  /\ WithinRows(num_paths, sample_size_per_path)
               /\ IF out.kind = "errors"
                  THEN /\ errors' = out.errors
                       /\ pc' = "rejected"
                       /\ call' = [via |-> "main",
                                   args |-> dispatch(num_paths, metric_type, distribution_shape,
                                                     variance_condition, sample_size_per_path,
                                                     group_prefix)]
                       /\ UNCHANGED <<i, user_id_counter, data, draws, ret>>
                  ELSE /\ errors' = <<>>
                       /\ Enter("main", out.call)
    /\ UNCHANGED sessionVars

\* a generator called on its own
DirectCall ==
    /\ pc = "idle"
    /\ \E fn \in GeneratorNames, num_paths \in NumPathsArgs,
          sample_size_per_path \in SampleSizeArgs, group_prefix \in {"Group", "Arm"} :
         \E distribution_shape \in IF fn = "generate_continuous_data" THEN ShapeChoices ELSE {None},
            variance_condition \in IF fn = "generate_continuous_data" THEN VarianceChoices ELSE {None} :
           /\ WithinRows(num_paths, sample_size_per_path)
           /\ Enter("direct", [fn |-> fn, num_paths |-> num_paths,
                               sample_size_per_path |-> sample_size_per_path,
                               distribution_shape |-> distribution_shape,
                               variance_condition |-> variance_condition,
                               group_prefix |-> group_prefix])
    /\ UNCHANGED errors
    /\ UNCHANGED sessionVars

\* one iteration of `for i in range(num_paths)`: the draw of the group's values and
\* the records appended for them
Iteration(fn) ==
    /\ pc = "loop"
    /\ call.args.fn = fn
    /\ i < call.args.num_paths
    /\ LET d == draw_of(call.args, i)
       IN  IF Raises(d)
           THEN /\ pc' = "raised"
                /\ UNCHANGED <<i, user_id_counter, data, draws>>
           ELSE \E values \in Arrays(d) :
                  LET r == append_records(data, values,
                                          group_name(call.args.group_prefix, i),
                                          user_id_counter)
                  IN  /\ data' = r.data
                      /\ user_id_counter' = r.user_id_counter
                      /\ draws' = Append(draws, d)
                      /\ i' = i + 1
                      /\ pc' = "loop"
    /\ UNCHANGED <<call, errors, ret>>
    /\ UNCHANGED sessionVars

ContinuousIteration == Iteration("generate_continuous_data")

ProportionIteration == Iteration("generate_proportion_data")

CategoricalIteration == Iteration("generate_categorical_data")

\* `return pd.DataFrame(data)` once range(num_paths) is exhausted
Return ==
    /\ pc = "loop"
    /\ i >= call.args.num_paths
    /\ pc' = "returned"
    /\ ret' = data
    /\ UNCHANGED <<call, errors, i, user_id_counter, data, draws>>
    /\ UNCHANGED sessionVars

NextGen ==
    \/ MainGenerate
    \/ DirectCall
    \/ ContinuousIteration
    \/ ProportionIteration
    \/ CategoricalIteration
    \/ Return

SpecGen == Init /\ [][NextGen]_vars

-----------------------------------------------------------------------------
(* Properties of the generators (checked under SpecGen). *)

Letters == <<"A", "B", "C", "D", "E", "F", "G", "H", "I", "J", "K", "L", "M">>

\* the label "{prefix} {letter}" of the group with 0-based index g
Label(prefix, g) == prefix \o " " \o Letters[g + 1]

Running == pc \in {"loop", "returned", "raised"}

ValidCounts == call.args.num_paths > 0 /\ call.args.sample_size_per_path > 0

\* C1: for every valid configuration the dataset a generator returns has exactly
\* num_paths * sample_size_per_path rows, exactly sample_size_per_path of them
\* for each of the num_paths groups.
C1_RowCount ==
    (pc = "returned" /\ ValidCounts) =>
        /\ Len(ret) = call.args.num_paths * call.args.sample_size_per_path
        /\ \A g \in 0..(call.args.num_paths - 1) :
               Cardinality({k \in 1..Len(ret) :
                               ret[k].group = Label(call.args.group_prefix, g)})
                   = call.args.sample_size_per_path

\* C1 witness: a generator has returned a dataset of three groups of two rows
C1_Witness ==
    /\ pc = "returned"
    /\ call.args.fn = "generate_categorical_data"
    /\ call.args.num_paths = 3
    /\ call.args.sample_size_per_path = 2
    /\ Len(ret) = 6

RowsNumbered(rows) ==
    \A k \in 1..Len(rows) :
        /\ rows[k].user_id = k
        /\ rows[k].group =
               Label(call.args.group_prefix, (k - 1) \div call.args.sample_size_per_path)

\* C2: the k-th row has user_id k and the label of group (k-1) div
\* sample_size_per_path: the ids are 1..N without gap or repeat, the counter
\* never resets between groups and the groups' blocks follow in index order.
\* It holds of the records at every point of the loop and of the dataset returned.
C2_UserIdsAndLabels ==
    Running =>
        /\ RowsNumbered(data)
        /\ RowsNumbered(ret)
        /\ user_id_counter = Len(data) + 1
        /\ pc = "returned" => ret = data

\* C2 witness: a returned dataset whose second group starts at user_id 3 with label B
C2_Witness ==
    /\ pc = "returned"
    /\ call.args.fn = "generate_proportion_data"
    /\ call.args.group_prefix = "Arm"
    /\ Len(ret) = 6
    /\ ret[3].user_id = 3
    /\ ret[3].group = "Arm B"
    /\ ret[6].group = "Arm C"

InvalidCounts == call.args.num_paths <= 0 \/ call.args.sample_size_per_path <= 0

\* C3 as claimed: with num_paths <= 0 or sample_size_per_path <= 0 no generator
\* runs to completion and returns a dataset, on the main path or called directly.
C3_NoDatasetForInvalidCounts ==
    (pc # "idle" /\ InvalidCounts) => pc # "returned"

\* C3 (amended): on the validate-then-generate path of main such a configuration
\* is rejected by validate_inputs, with the matching message, and no generator
\* is entered; a generator called directly does not check: it returns an empty
\* dataset, or numpy raises for a negative size; it never returns rows.
C3_RejectedOnMainPath ==
    (pc # "idle" /\ InvalidCounts) =>
        /\ call.via = "main" =>
               /\ pc = "rejected"
               /\ data = <<>> /\ draws = <<>> /\ ret = <<>>
               /\ call.args.num_paths <= 0 =>
                      \E k \in 1..Len(errors) :
                          errors[k] = "Number of Paths must be greater than 0"
               /\ call.args.sample_size_per_path <= 0 =>
                      \E k \in 1..Len(errors) :
                          errors[k] = "Sample Size Per Path must be greater than 0"
        /\ call.via = "direct" =>
               /\ pc # "rejected"
               /\ data = <<>> /\ ret = <<>>
               /\ pc = "raised" =>
                      call.args.sample_size_per_path < 0 /\ call.args.num_paths > 0
               /\ (call.args.num_paths <= 0 \/ call.args.sample_size_per_path = 0) =>
                      pc \in {"loop", "returned"}

\* C3 witness: main's path has rejected a configuration with no groups
C3_Witness ==
    /\ pc = "rejected"
    /\ call.via = "main"
    /\ call.args.num_paths = 0
    /\ call.args.sample_size_per_path = 2
    /\ Len(errors) = 1

\* the parameters the specification gives for group g of a Continuous run
ContinuousParams(shape, variance, g) ==
    IF shape = "Normal" /\ variance = "Equal"
    THEN [fn |-> "normal", loc |-> 500, scale |-> 100]
    ELSE IF shape = "Normal" /\ variance = "Unequal"
    THEN [fn |-> "normal", loc |-> 500 + 100 * g, scale |-> 100 + 50 * g]
    ELSE IF shape = "Skewed" /\ variance = "Equal"
    THEN [fn |-> "gamma", shape |-> 20, scale |-> 100]
    ELSE [fn |-> "gamma", shape |-> 20 + 5 * g, scale |-> 100 + 50 * g]

\* a draw without its size
ParamsOf(d) ==
    IF d.fn = "normal" THEN [fn |-> d.fn, loc |-> d.loc, scale |-> d.scale]
    ELSE [fn |-> d.fn, shape |-> d.shape, scale |-> d.scale]

\* C6: the Continuous sampler draws group i from Normal(50, 10), Normal(50 + 10i,
\* 10 + 5i), Gamma(2, 10) or Gamma(2 + 0.5i, 10 + 5i) according to shape and
\* variance alone (numbers in tenths): identical for all groups under Equal,
\* both parameters strictly increasing with i under Unequal.
C6_ContinuousParameters ==
    (Running /\ call.args.fn = "generate_continuous_data") =>
        /\ \A j \in 1..Len(draws) :
               /\ ParamsOf(draws[j]) =
                      ContinuousParams(call.args.distribution_shape,
                                       call.args.variance_condition, j - 1)
               /\ draws[j].size = call.args.sample_size_per_path
        /\ \A j \in 1..(Len(draws) - 1) :
               IF call.args.variance_condition = "Equal"
               THEN ParamsOf(draws[j + 1]) = ParamsOf(draws[j])
               ELSE /\ draws[j + 1].scale > draws[j].scale
                    /\ IF draws[j].fn = "normal"
                       THEN draws[j + 1].loc > draws[j].loc
                       ELSE draws[j + 1].shape > draws[j].shape

\* C6 witness: a Skewed/Unequal run has drawn its fourth group from Gamma(3.5, 25)
C6_Witness ==
    /\ Running
    /\ call.args.fn = "generate_continuous_data"
    /\ call.args.distribution_shape = "Skewed"
    /\ call.args.variance_condition = "Unequal"
    /\ Len(draws) >= 4
    /\ draws[4].shape = 35
    /\ draws[4].scale = 250

\* C7: the Proportion sampler draws group i with p = min(0.3 + 0.2 i, 0.9)
\* (3, 5, 7, 9 tenths for i = 0..3, 9 tenths from there on), non-decreasing in
\* i and strictly increasing across the groups when num_paths is 2 or 4; every
\* metric is 0 or 1.
C7_ProportionProbabilities ==
    (Running /\ call.args.fn = "generate_proportion_data") =>
        /\ \A j \in 1..Len(draws) :
               /\ draws[j].fn = "binomial" /\ draws[j].n = 1
               /\ draws[j].p = (IF j - 1 >= 3 THEN 9 ELSE <<3, 5, 7>>[j])
               /\ draws[j].p = (IF 3 + 2 * (j - 1) <= 9 THEN 3 + 2 * (j - 1) ELSE 9)
        /\ \A j \in 1..(Len(draws) - 1) :
               /\ draws[j].p <= draws[j + 1].p
               /\ call.args.num_paths \in {2, 4} => draws[j].p < draws[j + 1].p
        /\ \A k \in 1..Len(data) : data[k].metric \in {0, 1}
        /\ \A k \in 1..Len(ret) : ret[k].metric \in {0, 1}

\* C7 witness: a run of five groups, the fifth capped at 0.9, both outcomes drawn
C7_Witness ==
    /\ pc = "returned"
    /\ call.args.fn = "generate_proportion_data"
    /\ call.args.num_paths = 5
    /\ draws[5].p = 9
    /\ draws[4].p = 9
    /\ ret[1].metric = 1
    /\ ret[5].metric = 0

\* the weights the specification gives for group g, in tenths
SpecWeights(g) ==
    IF g = 0 THEN <<4, 3, 2, 1, 0, 0>>
    ELSE IF g = 1 THEN <<1, 2, 4, 3, 0, 0>>
    ELSE IF g = 2 THEN <<0, 1, 2, 3, 4, 0>>
    ELSE <<1, 1, 1, 1, 3, 3>>

SpecCategories == <<"Red", "Blue", "Green", "Yellow", "Purple", "Orange">>

\* the weight the specification gives label `label` in group g
SpecWeightOf(g, label) ==
    SpecWeights(g)[CHOOSE x \in 1..6 : SpecCategories[x] = label]

ZeroWeightNeverDrawn(rows) ==
    \A k \in 1..Len(rows) :
        /\ rows[k].metric \in {SpecCategories[x] : x \in 1..6}
        /\ SpecWeightOf((k - 1) \div call.args.sample_size_per_path, rows[k].metric) > 0

\* C8: the Categorical sampler draws group i over the six labels in order with
\* the weights of the table (the last row for every i >= 3); the weights sum to
\* 1 and renormalization leaves them as written; a label of weight 0 never
\* appears among the group's metrics; Purple has the largest weight in group 2.
C8_CategoricalWeights ==
    (Running /\ call.args.fn = "generate_categorical_data") =>
        /\ \A j \in 1..Len(draws) :
               /\ draws[j].fn = "choice"
               /\ draws[j].a = SpecCategories
               /\ draws[j].p = SpecWeights(j - 1)
               /\ draws[j].p = group_weights(j - 1)
               /\ SumSeq(group_weights(j - 1)) = 10
               /\ SumSeq(draws[j].p) = 10
        /\ Len(draws) >= 3 => \A x \in {1, 2, 3, 4, 6} : draws[3].p[5] > draws[3].p[x]
        /\ ZeroWeightNeverDrawn(data)
        /\ ZeroWeightNeverDrawn(ret)

\* C8 witness: a run of five groups; group 0 drew Red, group 2 Purple, group 4 Orange
C8_Witness ==
    /\ pc = "returned"
    /\ call.args.fn = "generate_categorical_data"
    /\ call.args.num_paths = 5
    /\ ret[1].metric = "Red"
    /\ ret[3].metric = "Purple"
    /\ ret[5].metric = "Orange"
    /\ draws[5].p = <<1, 1, 1, 1, 3, 3>>

-----------------------------------------------------------------------------
(* Properties of the session and of the catalog (checked under Spec). *)

\* rows 1..12 of the specification's table
SpecTable == <<
  [metric_type |-> "Continuous", distribution |-> "Normal", variance |-> "Equal", paths |-> 2, expected_test |-> "t-test"],
  [metric_type |-> "Continuous", distribution |-> "Normal", variance |-> "Unequal", paths |-> 2, expected_test |-> "Welch's t-test"],
  [metric_type |-> "Continuous", distribution |-> "Skewed", variance |-> "Equal", paths |-> 2, expected_test |-> "Mann-Whitney"],
  [metric_type |-> "Continuous", distribution |-> "Skewed", variance |-> "Unequal", paths |-> 2, expected_test |-> "Mann-Whitney"],
  [metric_type |-> "Continuous", distribution |-> "Normal", variance |-> "Equal", paths |-> 4, expected_test |-> "ANOVA"],
  [metric_type |-> "Continuous", distribution |-> "Normal", variance |-> "Unequal", paths |-> 4, expected_test |-> "Welch's ANOVA"],
  [metric_type |-> "Continuous", distribution |-> "Skewed", variance |-> "Equal", paths |-> 4, expected_test |-> "Kruskal-Wallis"],
  [metric_type |-> "Continuous", distribution |-> "Skewed", variance |-> "Unequal", paths |-> 4, expected_test |-> "Kruskal-Wallis"],
  [metric_type |-> "Proportion", distribution |-> "Binary", variance |-> "-", paths |-> 2, expected_test |-> "Two-Proportion Z-Test"],
  [metric_type |-> "Proportion", distribution |-> "Binary", variance |-> "-", paths |-> 4, expected_test |-> "Chi-Square"],
  [metric_type |-> "Categorical", distribution |-> "Uniform", variance |-> "-", paths |-> 2, expected_test |-> "Chi-Square"],
  [metric_type |-> "Categorical", distribution |-> "Uniform", variance |-> "-", paths |-> 4, expected_test |-> "Chi-Square"]
>>

SameConfig(a, b) ==
    /\ a.metric_type = b.metric_type
    /\ a.distribution = b.distribution
    /\ a.variance = b.variance
    /\ a.paths = b.paths

\* the catalog has the keys 1..20, and the entry looked up for the loaded scenario
\* has 1000 samples, is its row of the table (1..12) or has the configuration of
\* the entry `originals` names for it (13..20)
CatalogMatches(originals) ==
    /\ DOMAIN presets = 1..20
    /\ sidebar_shows_preset(session) =>
           LET n == session["current_scenario"]
               p == sidebar_preset(session)
           IN  /\ p = presets[n]
               /\ p.samples = 1000
               /\ n <= 12 =>
                      /\ SameConfig(p, SpecTable[n])
                      /\ p.expected_test = SpecTable[n].expected_test
               /\ n >= 13 => SameConfig(p, presets[originals[n - 12]])

\* C4 as claimed: 20 entries keyed 1..20, each of 1000 samples, 1..12 as in the
\* table, 13..20 with the configurations of 1, 4, 9, 10, 5, 7, 10, 12.
C4_CatalogAsClaimed == CatalogMatches(<<1, 4, 9, 10, 5, 7, 10, 12>>)

\* C4 (amended): as claimed, except that entry 18 (Skewed, Unequal, 4 groups) has
\* the configuration of entry 8, not of entry 7: 13..20 have the configurations
\* of 1, 4, 9, 10, 5, 8, 10, 12.
C4_Catalog == CatalogMatches(<<1, 4, 9, 10, 5, 8, 10, 12>>)

\* C4 witness: scenario 18 is loaded and shown, with the configuration of entry 8
C4_Witness ==
    /\ sidebar_shows_preset(session)
    /\ session["current_scenario"] = 18
    /\ sidebar_preset(session).variance = "Unequal"
    /\ presets[7].variance = "Equal"

\* C5: load_scenario(id) with id outside 1..20 is reported as UnknownPreset /
\* NotFound to the caller (and changes no field of the session state).
C5_UnknownPresetSignalled ==
    (last_load.returned # "not called" /\ last_load.arg \notin 1..20) =>
        (last_load.raised = "UnknownPreset" \/ last_load.returned = "NotFound")

\* the half of C5 that the code keeps: such a call changes nothing in the session
C5_NoEffectOutsideCatalog ==
    [][\A n \in LoadArgs \ (1..20) : LoadScenario(n) => session' = session]_vars

ShapeDefined == Has(session, "distribution_shape")
VarianceDefined == Has(session, "variance_condition")
IsContinuous == Has(session, "metric_type") /\ session["metric_type"] = "Continuous"

\* C9 as claimed: after any sequence of load_scenario calls from the empty
\* session, distribution_shape and variance_condition are defined iff the
\* session's metric_type is Continuous.
C9_DefinedIffContinuous ==
    hist.only_loads =>
        /\ ShapeDefined <=> IsContinuous
        /\ VarianceDefined <=> IsContinuous

\* C9 (amended): after any sequence of load_scenario calls from the empty
\* session, distribution_shape and variance_condition are defined if the
\* session's metric_type is Continuous (they stay defined, with the values of an
\* earlier Continuous preset, after a Proportion or Categorical one is loaded);
\* the distribution_shape and variance_condition main passes on are not None iff
\* the metric type is Continuous.
C9_DefinedIfContinuous ==
    /\ hist.only_loads =>
           (IsContinuous =>
               /\ ShapeDefined /\ session["distribution_shape"] \in ShapeChoices
               /\ VarianceDefined /\ session["variance_condition"] \in VarianceChoices)
    /\ distribution_shape_widget(session) # None
           <=> metric_type_widget(session) = "Continuous"
    /\ variance_condition_widget(session) # None
           <=> metric_type_widget(session) = "Continuous"

\* C9 witness: loads alone have left a Proportion session with a Skewed shape
C9_Witness ==
    /\ hist.only_loads
    /\ Has(session, "metric_type")
    /\ session["metric_type"] = "Proportion"
    /\ ShapeDefined
    /\ session["distribution_shape"] = "Skewed"
    /\ distribution_shape_widget(session) = None

GeneratorFor(metric_type) ==
    IF metric_type = "Continuous" THEN "generate_continuous_data"
    ELSE IF metric_type = "Proportion" THEN "generate_proportion_data"
    ELSE "generate_categorical_data"

\* with no form edit since load_scenario(n): the session holds preset n's values
\* and a generation uses them (the Generate button can only be refused for a
\* blank group prefix, which no load resets)
C10_AfterLoad ==
    hist.clean =>
        LET n == session["current_scenario"]
            p == presets[n]
        IN  /\ n \in 1..20
            /\ session["num_paths"] = p.paths
            /\ session["metric_type"] = p.metric_type
            /\ session["sample_size_per_path"] = p.samples
            /\ session["file_name"] = "test inputs/scenario" \o ToString(n) \o ".csv"
            /\ n = 7 => session["file_name"] = "test inputs/scenario7.csv"
            /\ p.metric_type = "Continuous" =>
                   /\ session["distribution_shape"] = p.distribution
                   /\ session["variance_condition"] = p.variance
            /\ output.kind = "errors" =>
                   output.errors = <<"Group Label Prefix cannot be empty">>
            /\ output.kind = "dataset" =>
                   /\ output.call.fn = GeneratorFor(p.metric_type)
                   /\ output.call.num_paths = p.paths
                   /\ output.call.sample_size_per_path = p.samples
                   /\ p.metric_type = "Continuous" =>
                          /\ output.call.distribution_shape = p.distribution
                          /\ output.call.variance_condition = p.variance

\* after loads alone: shape and variance are those of the latest Continuous
\* preset loaded, or unset
C10_LatestContinuous ==
    hist.only_loads =>
        IF hist.last_continuous = 0
        THEN ~ShapeDefined /\ ~VarianceDefined
        ELSE /\ ShapeDefined /\ VarianceDefined
             /\ session["distribution_shape"] = presets[hist.last_continuous].distribution
             /\ session["variance_condition"] = presets[hist.last_continuous].variance

SameAt(s, t, k) == (Has(s, k) <=> Has(t, k)) /\ (Has(s, k) => s[k] = t[k])

\* a load of a preset that is not Continuous leaves shape and variance alone
\* (a load of n leaves current_scenario = n, which names the step's argument)
C10_Frame ==
    Has(session', "current_scenario") =>
        LET n == session'["current_scenario"]
        IN  (presets[n].metric_type # "Continuous" /\ LoadScenario(n)) =>
                /\ SameAt(session, session', "distribution_shape")
                /\ SameAt(session, session', "variance_condition")

\* C10: load_scenario(n), n in 1..20, sets current_scenario, num_paths,
\* metric_type, sample_size_per_path and file_name from preset n, sets
\* distribution_shape and variance_condition for a Continuous preset and leaves
\* them unchanged otherwise; after loads alone they are those of the latest
\* Continuous preset loaded (or unset); a generation that follows the load with
\* no form edit uses preset n's values.
C10_LoadScenarioEffect ==
    /\ [](C10_AfterLoad /\ C10_LatestContinuous)
    /\ [][C10_Frame]_vars

\* C10 witness: preset 9 (Proportion) loaded after a Continuous one, shape kept,
\* and the generation that follows dispatched with preset 9's values
C10_Witness ==
    /\ hist.clean /\ hist.only_loads
    /\ session["current_scenario"] = 9
    /\ hist.last_continuous = 4
    /\ session["distribution_shape"] = "Skewed"
    /\ output.kind = "dataset"
    /\ output.call.fn = "generate_proportion_data"
    /\ output.call.sample_size_per_path = 1000

====
